---- MODULE Spec2Model ----
(***************************************************************************)
(* A model of securitybot/chat/slack.py: the Slack chat adapter.           *)
(*                                                                         *)
(* The adapter is single-threaded.  One public method runs at a time (op), *)
(* and while it runs it may have one _api_call frame open (api).  The      *)
(* SlackClient transport is the environment: every request is answered by  *)
(* a response drawn from the set the backend can produce for it.           *)
(*                                                                         *)
(* Strings whose characters the code inspects (error codes, channel ids)   *)
(* are sequences of one-character strings.  Dictionaries with optional     *)
(* keys are functions whose DOMAIN is the set of keys present.             *)
(***************************************************************************)
EXTENDS Integers, Sequences, FiniteSets, TLC

VARIABLES
    constructed,   \* Slack.__init__ has completed on this instance
    op,            \* the public method that runs or ran last
    outcome,       \* "none", "running", "returned", "ChatException", "KeyError"
    result,        \* the value the method returned
    api,           \* the frame of _api_call
    calls,         \* the latest _api_call invocations of the current method, in order
    pages,         \* backend: the user listing, a chain of pages
    reliable,      \* backend: answers every request of this method with success
    session,       \* transport: an RTM session is open
    members,       \* get_users: the accumulator
    next_cursor,   \* get_users: the cursor variable
    events,        \* get_messages: the batch drained by rtm_read
    user,          \* message_user: the User argument
    channel,       \* send_message: the channel argument
    message,       \* send_message, message_user: the message argument
    validated,     \* history: _validate has read a response of api.test with ok true
    retried,       \* history: an earlier _api_call of this adapter slept or raised
    listed         \* history: the listing and the result of the get_users that
                   \* returned last, kept while the next method lists it again

history == <<validated, retried, listed>>

vars == <<constructed, op, outcome, result, api, calls, pages, reliable,
          session, members, next_cursor, events, user, channel, message,
          history>>

----------------------------------------------------------------------------
(* Program constants *)

RATE_LIMIT_SLEEP == 10
RATE_LIMIT_TRIES == 6

(* Bounds of the model *)

MaxPages == 2      \* pages in a backend listing
MaxMembers == 3    \* member records in a backend listing
MaxAcc == 4        \* length of the accumulator from which get_users goes round again
MaxLog == 3        \* _api_call invocations that calls remembers
MaxBatch == 3      \* events in one rtm_read batch

----------------------------------------------------------------------------
(* Values *)

None == <<"None">>     \* Python's None
EmptyCursor == <<>>    \* the empty string, as a cursor
Cursor(k) == <<"c", k>>    \* the cursor that names page k of a listing
NoValue == <<>>        \* a variable that holds nothing; what a method returns
                       \* that returns None

SeqsUpTo(S, n) == UNION {[1..k -> S] : k \in 0..n}

Has(d, k) == k \in DOMAIN d

ratelimited == <<"r","a","t","e","l","i","m","i","t","e","d">>
RateLimited == <<"R","a","t","e","L","i","m","i","t","e","d">>
invalid_auth == <<"i","n","v","a","l","i","d","_","a","u","t","h">>

\* Mutant: the comparison keeps the case of the error code
LowerChar_keepcase(c) == c

\* str.lower, on the characters that occur
LowerChar(c) ==
    CASE c = "R" -> "r"
      [] c = "L" -> "l"
      [] c = "D" -> "d"
      [] c = "C" -> "c"
      [] c = "G" -> "g"
      [] OTHER -> c

Lower(s) == [i \in DOMAIN s |-> LowerChar(s[i])]

\* str.startswith
StartsWith(s, p) == Len(s) >= Len(p) /\ SubSeq(s, 1, Len(p)) = p

----------------------------------------------------------------------------
(* The transport: SlackClient.api_call, rtm_connect, rtm_read *)

EmptyDict == <<>>

\* Responses that report a failure; the last one carries no "ok" key.
ErrorResponses ==
    { [ok |-> FALSE, error |-> ratelimited],
      [ok |-> FALSE, error |-> RateLimited],
      [ok |-> FALSE, error |-> invalid_auth],
      [error |-> invalid_auth] }

\* The page of the listing a cursor names: no cursor names the first page.
PageIndex(cursor) == IF cursor \in {None, EmptyCursor} THEN 1 ELSE cursor[2]

\* users.list: page k names page k+1; the last page has an empty or no cursor.
PageResponses(cursor) ==
    LET k == PageIndex(cursor) IN
    IF k < Len(pages)
    THEN { [ok |-> TRUE, members |-> pages[k],
            response_metadata |-> [next_cursor |-> Cursor(k + 1)]] }
    ELSE { [ok |-> TRUE, members |-> pages[k],
            response_metadata |-> [next_cursor |-> EmptyCursor]],
           [ok |-> TRUE, members |-> pages[k]] }

\* im.open: the direct channel of a user
DirectChannel(u) == <<"D", u>>

SuccessResponses(method, kwargs) ==
    CASE method = "users.list" -> PageResponses(kwargs.cursor)
      [] method = "im.open" -> { [ok |-> TRUE, channel |-> [id |-> DirectChannel(kwargs.user)]] }
      [] OTHER -> { [ok |-> TRUE] }

TransportResponses(method, kwargs) ==
    SuccessResponses(method, kwargs)
        \cup (IF reliable THEN {} ELSE ErrorResponses)

----------------------------------------------------------------------------
(* Slack._api_call *)

NoFrame == [status |-> "none"]

Frame(method, rate_limit_retry, kwargs) ==
    [status |-> "running", method |-> method,
     rate_limit_retry |-> rate_limit_retry, kwargs |-> kwargs,
     cur_try |-> 0, response |-> NoValue, nreq |-> 0, slept |-> 0]

\* dict.get(key, default)
Get(d, k, default) == IF Has(d, k) THEN d[k] ELSE default

IsRateLimited(response) == Lower(Get(response, "error", <<>>)) = ratelimited

IsOk(response) == Has(response, "ok") /\ response.ok

\* Mutant: rate_limit_retry is not consulted
AfterResponse_alwaysretry(f, response) ==
    LET g == [f EXCEPT !.response = response, !.nreq = f.nreq + 1] IN
    IF f.cur_try > RATE_LIMIT_TRIES
    THEN [g EXCEPT !.status = "raised"]
    ELSE IF IsRateLimited(response)
         THEN [g EXCEPT !.cur_try = f.cur_try + 1,
                        !.slept = f.slept + RATE_LIMIT_SLEEP]
         ELSE [g EXCEPT !.status = "returned"]

\* The state of the frame after one round of the loop: the request, the
\* test of cur_try, then the test of the response.
AfterResponse(f, response) ==
    LET g == [f EXCEPT !.response = response, !.nreq = f.nreq + 1] IN
    IF f.cur_try > RATE_LIMIT_TRIES
    THEN [g EXCEPT !.status = "raised"]
    ELSE IF IsRateLimited(response) /\ f.rate_limit_retry
         THEN [g EXCEPT !.cur_try = f.cur_try + 1,
                        !.slept = f.slept + RATE_LIMIT_SLEEP]
         ELSE [g EXCEPT !.status = "returned"]

\* The last n elements of a sequence
LastN(s, n) == IF Len(s) <= n THEN s ELSE SubSeq(s, Len(s) - n + 1, Len(s))

\* The frame of a call that slept at least once (one that raised has)
Consumed(f) == f.status # "none" /\ f.cur_try > 0

\* Mutant: the counter of the previous call is carried into the next one
Call_keepscounter(log, method, rate_limit_retry, kwargs) ==
    /\ api' = [Frame(method, rate_limit_retry, kwargs) EXCEPT
                  !.cur_try = IF api.status = "none" THEN 0 ELSE api.cur_try]
    /\ calls' = LastN(Append(log, [method |-> method, kwargs |-> kwargs]), MaxLog)
    /\ retried' = (retried \/ Consumed(api))

\* A method enters _api_call; log holds its earlier invocations
Call(log, method, rate_limit_retry, kwargs) ==
    /\ api' = Frame(method, rate_limit_retry, kwargs)
    /\ calls' = LastN(Append(log, [method |-> method, kwargs |-> kwargs]), MaxLog)
    /\ retried' = (retried \/ Consumed(api))

\* One round of the loop of _api_call
ApiCallRound ==
    /\ outcome = "running"
    /\ api.status = "running"
    /\ \E response \in TransportResponses(api.method, api.kwargs) :
           api' = AfterResponse(api, response)
    /\ UNCHANGED <<constructed, op, outcome, result, calls, pages, reliable,
                   session, members, next_cursor, events, user, channel, message,
                   history>>

\* ChatException leaves _api_call and every method above it
Propagate ==
    /\ outcome = "running"
    /\ api.status = "raised"
    /\ outcome' = "ChatException"
    /\ UNCHANGED <<constructed, op, result, api, calls, pages, reliable,
                   session, members, next_cursor, events, user, channel, message,
                   history>>

NoListing == <<>>

\* A method starts on a constructed adapter that runs no other method
Idle == constructed /\ op = "idle"

\* A method other than get_users starts when no listing is kept to be listed
\* again
CanStart == Idle /\ listed = NoListing

Begin(name) ==
    /\ op' = name
    /\ outcome' = "running"
    /\ result' = NoValue

NoLocals ==
    /\ members' = NoValue /\ next_cursor' = NoValue
    /\ events' = NoValue /\ user' = NoValue /\ channel' = NoValue
    /\ message' = NoValue

\* _api_call invoked on its own, with either value of rate_limit_retry
ApiCallStart ==
    /\ CanStart
    /\ Begin("_api_call")
    /\ \E retry \in BOOLEAN : Call(<<>>, "api.test", retry, EmptyDict)
    /\ reliable' = FALSE
    /\ pages' = <<>>
    /\ NoLocals
    /\ UNCHANGED <<constructed, session, validated, listed>>

ApiCallDone ==
    /\ op = "_api_call" /\ outcome = "running"
    /\ api.status = "returned"
    /\ outcome' = "returned"
    /\ result' = api.response
    /\ UNCHANGED <<constructed, op, api, calls, pages, reliable,
                   session, members, next_cursor, events, user, channel, message,
                   history>>

----------------------------------------------------------------------------
(* Slack.__init__ and Slack._validate *)

\* __init__ has set its fields and _validate has entered _api_call
Init ==
    /\ constructed = FALSE
    /\ op = "__init__"
    /\ outcome = "running"
    /\ result = NoValue
    /\ api = Frame("api.test", TRUE, EmptyDict)
    /\ calls = <<[method |-> "api.test", kwargs |-> EmptyDict]>>
    /\ reliable \in BOOLEAN
    /\ pages = <<>>
    /\ session = FALSE
    /\ members = NoValue /\ next_cursor = NoValue
    /\ events = NoValue /\ user = NoValue /\ channel = NoValue
    /\ message = NoValue
    /\ validated = FALSE /\ retried = FALSE /\ listed = NoListing

\* Mutant: the test of response['ok'] is inverted
Validate_inverted ==
    /\ op = "__init__" /\ outcome = "running"
    /\ api.status = "returned"
    /\ IF ~Has(api.response, "ok")
       THEN outcome' = "KeyError" /\ UNCHANGED <<constructed, result>>
       ELSE IF api.response.ok
            THEN outcome' = "ChatException" /\ UNCHANGED <<constructed, result>>
            ELSE outcome' = "returned" /\ constructed' = TRUE /\ UNCHANGED result
    /\ validated' = IsOk(api.response)
    /\ UNCHANGED <<op, api, calls, pages, reliable, session, members,
                   next_cursor, events, user, channel, message, retried, listed>>

\* Mutant: _validate logs a response with ok false and raises nothing
Validate_noraise ==
    /\ op = "__init__" /\ outcome = "running"
    /\ api.status = "returned"
    /\ IF ~Has(api.response, "ok")
       THEN outcome' = "KeyError" /\ UNCHANGED <<constructed, result>>
       ELSE outcome' = "returned" /\ constructed' = TRUE /\ UNCHANGED result
    /\ validated' = IsOk(api.response)
    /\ UNCHANGED <<op, api, calls, pages, reliable, session, members,
                   next_cursor, events, user, channel, message, retried, listed>>

\* _validate reads response['ok']
Validate ==
    /\ op = "__init__" /\ outcome = "running"
    /\ api.status = "returned"
    /\ IF ~Has(api.response, "ok")
       THEN outcome' = "KeyError" /\ UNCHANGED <<constructed, result>>
       ELSE IF ~api.response.ok
            THEN outcome' = "ChatException" /\ UNCHANGED <<constructed, result>>
            ELSE outcome' = "returned" /\ constructed' = TRUE /\ UNCHANGED result
    /\ validated' = IsOk(api.response)
    /\ UNCHANGED <<op, api, calls, pages, reliable, session, members,
                   next_cursor, events, user, channel, message, retried, listed>>

\* The caller has the result or the exception of a method of the constructed
\* adapter: the frame of the method is gone
Return ==
    /\ constructed
    /\ outcome \in {"returned", "ChatException", "KeyError"}
    /\ op' = "idle"
    /\ outcome' = "none"
    /\ result' = NoValue
    /\ api' = NoFrame /\ calls' = <<>>
    /\ reliable' = FALSE /\ pages' = <<>>
    /\ NoLocals
    /\ retried' = (retried \/ Consumed(api))
    /\ listed' \in {NoListing} \cup
           (IF op = "get_users" /\ outcome = "returned"
            THEN {[pages |-> pages, result |-> result]} ELSE {})
    /\ UNCHANGED <<constructed, session, validated>>

----------------------------------------------------------------------------
(* Slack.connect *)

connect ==
    /\ CanStart
    /\ op' = "connect"
    /\ \E handshake \in BOOLEAN :
           IF handshake
           THEN outcome' = "returned" /\ result' = NoValue /\ session' = TRUE
           ELSE outcome' = "ChatException" /\ result' = NoValue
                /\ UNCHANGED session
    /\ api' = NoFrame /\ calls' = <<>>
    /\ reliable' = FALSE /\ pages' = <<>>
    /\ NoLocals
    /\ UNCHANGED <<constructed, history>>

----------------------------------------------------------------------------
(* Slack.get_users *)

\* The member records of the backend: deleted is True, False or not present
MemberRecords ==
    { [id |-> "U1", deleted |-> FALSE],
      [id |-> "U2", deleted |-> TRUE],
      [id |-> "U3"] }

RECURSIVE Concat(_)
Concat(ss) == IF ss = <<>> THEN <<>> ELSE Head(ss) \o Concat(Tail(ss))

\* The chains of p pages that hold at most m member records
RECURSIVE Chains(_, _)
Chains(p, m) ==
    IF p = 0 THEN {<<>>}
    ELSE UNION { {<<page>> \o rest : rest \in Chains(p - 1, m - Len(page))} :
                 page \in SeqsUpTo(MemberRecords, m) }

\* A listing is a chain of one or more pages
Listings == UNION {Chains(p, MaxMembers) : p \in 1..MaxPages}

\* Mutant: the page is appended unfiltered
ActiveMembers_unfiltered(ms) == ms

\* [m for m in response['members'] if not m.get('deleted')]
ActiveMembers(ms) == SelectSeq(ms, LAMBDA m : ~Get(m, "deleted", FALSE))

\* Mutant: the cursor is looked up under the key 'cursor', which no page has
HasNextCursor_wrongkey(response) ==
    /\ Has(response, "response_metadata")
    /\ Has(response.response_metadata, "cursor")

\* not (not metadata or not metadata.get('next_cursor'))
HasNextCursor(response) ==
    /\ Has(response, "response_metadata")
    /\ Has(response.response_metadata, "next_cursor")
    /\ response.response_metadata.next_cursor \notin {None, EmptyCursor}

\* Mutant: the accumulator is kept from the listing before
GetUsersStart_stale ==
    /\ Idle
    /\ Begin("get_users")
    /\ pages' \in (IF listed = NoListing THEN Listings ELSE {listed.pages})
    /\ reliable' \in BOOLEAN
    /\ members' = (IF listed = NoListing THEN <<>> ELSE listed.result)
    /\ next_cursor' = None
    /\ Call(<<>>, "users.list", TRUE, [cursor |-> None])
    /\ events' = NoValue /\ user' = NoValue /\ channel' = NoValue
    /\ message' = NoValue
    /\ UNCHANGED <<constructed, session, validated, listed>>

\* members = [], next_cursor = None, and the first round enters _api_call
GetUsersStart ==
    /\ Idle
    /\ Begin("get_users")
    /\ pages' \in (IF listed = NoListing THEN Listings ELSE {listed.pages})
    /\ reliable' \in BOOLEAN
    /\ members' = <<>>
    /\ next_cursor' = None
    /\ Call(<<>>, "users.list", TRUE, [cursor |-> None])
    /\ events' = NoValue /\ user' = NoValue /\ channel' = NoValue
    /\ message' = NoValue
    /\ UNCHANGED <<constructed, session, validated, listed>>

\* The rest of a round: the page is filtered and appended, then the loop
\* ends or goes round with cursor=next_cursor
GetUsersPage ==
    /\ op = "get_users" /\ outcome = "running"
    /\ api.status = "returned"
    /\ IF ~Has(api.response, "members")
       THEN /\ outcome' = "KeyError"
            /\ UNCHANGED <<result, api, calls, members, retried>>
       ELSE LET acc == members \o ActiveMembers(api.response.members) IN
            /\ members' = acc
            /\ IF ~HasNextCursor(api.response)
               THEN /\ outcome' = "returned"
                    /\ result' = acc
                    /\ UNCHANGED <<api, calls, retried>>
               ELSE /\ Len(acc) <= MaxAcc
                    /\ Call(calls, "users.list", TRUE, [cursor |-> next_cursor])
                    /\ UNCHANGED <<outcome, result>>
    /\ UNCHANGED <<constructed, op, pages, reliable, session, next_cursor,
                   events, user, channel, message, validated, listed>>

----------------------------------------------------------------------------
(* Slack.get_messages *)

D1 == <<"D", "1">>
C1 == <<"C", "1">>

WithUser(e) == {e} \cup {e @@ [user |-> u] : u \in {"", "U1"}}
WithChannel(e) == {e} \cup {e @@ [channel |-> c] : c \in {D1, C1}}

\* The events of rtm_read: type present, user and channel optional
Events ==
    UNION {WithChannel(e) :
           e \in UNION {WithUser([type |-> t]) : t \in {"message", "hello"}}}

Batches == SeqsUpTo(Events, MaxBatch)

IsMessage(e) == e.type = "message"

\* Mutant: the test of the channel prefix is left out
IsDirect_anychannel(m) == Has(m, "user")

\* 'user' in m and m['channel'].startswith('D')
IsDirect(m) == Has(m, "user") /\ StartsWith(m.channel, <<"D">>)

\* m['channel'] is read of an event that has no such key
ChannelKeyError(es) ==
    \E i \in DOMAIN es :
        IsMessage(es[i]) /\ Has(es[i], "user") /\ ~Has(es[i], "channel")

Reverse(s) == [i \in 1..Len(s) |-> s[Len(s) + 1 - i]]

\* Mutant: the retained events come out latest first
DirectMessages_reversed(es) == Reverse(SelectSeq(SelectSeq(es, IsMessage), IsDirect))

DirectMessages(es) == SelectSeq(SelectSeq(es, IsMessage), IsDirect)

get_messages ==
    /\ CanStart
    /\ op' = "get_messages"
    /\ \E batch \in Batches :
           /\ events' = batch
           /\ IF ChannelKeyError(batch)
              THEN outcome' = "KeyError" /\ result' = NoValue
              ELSE outcome' = "returned" /\ result' = DirectMessages(batch)
    /\ api' = NoFrame /\ calls' = <<>>
    /\ reliable' = FALSE /\ pages' = <<>>
    /\ members' = NoValue /\ next_cursor' = NoValue
    /\ user' = NoValue /\ channel' = NoValue /\ message' = NoValue
    /\ UNCHANGED <<constructed, session, history>>

----------------------------------------------------------------------------
(* Slack.send_message and Slack.message_user *)

username == "securitybot"
icon_url == "https://bot/icon.png"

Users == {"U1", "U2"}
Texts == {"hello", "bye"}
Channels == {DirectChannel(u) : u \in Users} \cup {C1}

PostKwargs(ch, text) ==
    [channel |-> ch, text |-> text, username |-> username,
     as_user |-> FALSE, icon_url |-> icon_url]

SendMessageStart ==
    /\ CanStart
    /\ Begin("send_message")
    /\ \E ch \in Channels, text \in Texts :
           /\ channel' = ch
           /\ message' = text
           /\ Call(<<>>, "chat.postMessage", TRUE, PostKwargs(ch, text))
    /\ reliable' \in BOOLEAN
    /\ pages' = <<>>
    /\ members' = NoValue /\ next_cursor' = NoValue
    /\ events' = NoValue /\ user' = NoValue
    /\ UNCHANGED <<constructed, session, validated, listed>>

\* send_message drops the response; message_user returns after it
SendMessageDone ==
    /\ op \in {"send_message", "message_user"} /\ outcome = "running"
    /\ api.status = "returned"
    /\ api.method = "chat.postMessage"
    /\ outcome' = "returned"
    /\ UNCHANGED <<constructed, op, result, api, calls, pages, reliable, session,
                   members, next_cursor, events, user, channel, message,
                   history>>

MessageUserStart ==
    /\ CanStart
    /\ Begin("message_user")
    /\ \E u \in Users, text \in Texts :
           /\ user' = [id |-> u]
           /\ message' = text
           /\ Call(<<>>, "im.open", TRUE, [user |-> u])
    /\ reliable' \in BOOLEAN
    /\ pages' = <<>>
    /\ members' = NoValue /\ next_cursor' = NoValue
    /\ events' = NoValue /\ channel' = NoValue
    /\ UNCHANGED <<constructed, session, validated, listed>>

\* Mutant: the message is posted to the user id, not to the resolved channel
MessageUserResolved_touser ==
    /\ op = "message_user" /\ outcome = "running"
    /\ api.status = "returned"
    /\ api.method = "im.open"
    /\ IF ~Has(api.response, "channel")
       THEN /\ outcome' = "KeyError"
            /\ UNCHANGED <<api, calls, channel, retried>>
       ELSE /\ channel' = <<user.id>>
            /\ Call(calls, "chat.postMessage", TRUE,
                    PostKwargs(<<user.id>>, message))
            /\ UNCHANGED outcome
    /\ UNCHANGED <<constructed, op, result, pages, reliable, session,
                   members, next_cursor, events, user, message, validated,
                   listed>>

\* response['channel']['id'] is read, then send_message enters _api_call
MessageUserResolved ==
    /\ op = "message_user" /\ outcome = "running"
    /\ api.status = "returned"
    /\ api.method = "im.open"
    /\ IF ~Has(api.response, "channel")
       THEN /\ outcome' = "KeyError"
            /\ UNCHANGED <<api, calls, channel, retried>>
       ELSE /\ channel' = api.response.channel.id
            /\ Call(calls, "chat.postMessage", TRUE,
                    PostKwargs(api.response.channel.id, message))
            /\ UNCHANGED outcome
    /\ UNCHANGED <<constructed, op, result, pages, reliable, session,
                   members, next_cursor, events, user, message, validated,
                   listed>>

----------------------------------------------------------------------------

Next ==
    \/ ApiCallRound
    \/ Propagate
    \/ ApiCallStart
    \/ ApiCallDone
    \/ Validate
    \/ Return
    \/ connect
    \/ GetUsersStart
    \/ GetUsersPage
    \/ get_messages
    \/ SendMessageStart
    \/ SendMessageDone
    \/ MessageUserStart
    \/ MessageUserResolved

Spec == Init /\ [][Next]_vars

\* The adapter is not abandoned in the middle of a method
FairSpec == Spec /\ WF_vars(Next)

TypeOK ==
    /\ constructed \in BOOLEAN
    /\ op \in {"idle", "__init__", "_api_call", "connect", "get_users",
               "get_messages", "send_message", "message_user"}
    /\ outcome \in {"none", "running", "returned", "ChatException", "KeyError"}
    /\ api.status \in {"none", "running", "returned", "raised"}
    /\ reliable \in BOOLEAN
    /\ session \in BOOLEAN
    /\ validated \in BOOLEAN
    /\ retried \in BOOLEAN

----------------------------------------------------------------------------
(* The claims *)

InCall == api.status # "none"

Ended == outcome \in {"returned", "ChatException", "KeyError"}

\* C1: with retry enabled, a call whose responses are all rate-limited fails
\* on the 7th rate-limited response: it has then issued 7 requests (1 + the
\* 6 retries) and it never issues an 8th.
C1_FailsOnSeventhRateLimited ==
    (InCall /\ api.rate_limit_retry) =>
        /\ api.nreq <= RATE_LIMIT_TRIES + 1
        /\ (api.nreq = RATE_LIMIT_TRIES + 1 /\ IsRateLimited(api.response))
               => api.status = "raised"

\* The accumulator is about to outgrow what the model follows: the round
\* that GetUsersPage does not take
AccumulatorFull ==
    /\ op = "get_users" /\ api.status = "returned"
    /\ "members" \in DOMAIN api.response
    /\ Len(members) + Len(api.response.members) > MaxAcc

\* C2: against a backend that serves its finite chain of pages and never
\* rate-limits, a running get_users eventually ends (or its accumulator
\* outgrows the model).
C2_ListUsersTerminates ==
    (op = "get_users" /\ outcome = "running" /\ reliable)
        ~> (Ended \/ AccumulatorFull)

\* The member records of a listing that are not deleted, in the order of the
\* listing: first page first
NotDeleted(m) == ~("deleted" \in DOMAIN m /\ m.deleted = TRUE)
Surviving(listing) == SelectSeq(Concat(listing), NotDeleted)

\* C3: when get_users returns, its result is the concatenation, first page
\* first and in the order of each page, of the members of every page of the
\* listing that are not deleted, each page once.
C3_ResultIsAllSurvivors ==
    (op = "get_users" /\ outcome = "returned") => result = Surviving(pages)

\* get_users has returned a listing from which it dropped a deleted member
\* and kept two others
C3_Witness ==
    /\ op = "get_users" /\ outcome = "returned"
    /\ Len(result) = 2 /\ result[1] # result[2]
    /\ Len(Concat(pages)) = 3

\* C4: in every state of a listing no record of the accumulator, nor of the
\* result, is deleted.
C4_NoDeletedAccumulated ==
    op = "get_users" =>
        /\ \A i \in DOMAIN members : NotDeleted(members[i])
        /\ outcome = "returned" => \A i \in DOMAIN result : NotDeleted(result[i])

\* A second round of get_users has appended to the accumulator a page that
\* holds a deleted member
C4_Witness ==
    /\ op = "get_users"
    /\ Len(calls) >= 2
    /\ api.status = "running"
    /\ members # <<>>
    /\ \E i \in DOMAIN pages[1] : ~NotDeleted(pages[1][i])

\* C5: get_users ends in no error but a ChatException that _api_call raised;
\* after a page request that was softly rejected it returns the accumulator.
C5_ListUsersFailsOnlyByChatError ==
    (op = "get_users" /\ Ended) =>
        /\ outcome \in {"returned", "ChatException"}
        /\ outcome = "ChatException" => api.status = "raised"
        /\ (api.status = "returned" /\ ~IsOk(api.response))
               => (outcome = "returned" /\ result = members)

\* C6: a call that has received a response that is not rate-limited and has
\* no true ok flag has returned: it neither goes on nor raises.
C6_SoftFailureReturns ==
    (InCall /\ api.nreq >= 1 /\ ~IsRateLimited(api.response)
        /\ ~IsOk(api.response))
        => api.status = "returned"

\* The events that get_messages is to retain
Qualifies(e) ==
    /\ e.type = "message"
    /\ "user" \in DOMAIN e
    /\ "channel" \in DOMAIN e
    /\ Len(e.channel) >= 1 /\ e.channel[1] = "D"

C8_GetMessagesNeverFails ==
    (op = "get_messages" /\ Ended) => outcome = "returned"

\* C9, as claimed: every event get_messages returns has a sender id that is
\* not empty and a channel that begins with "D".
C9_SenderIdNotEmpty ==
    (op = "get_messages" /\ outcome = "returned") =>
        \A i \in DOMAIN result :
            /\ "user" \in DOMAIN result[i] /\ result[i].user # ""
            /\ Len(result[i].channel) >= 1 /\ result[i].channel[1] = "D"

\* C9, amended: every event get_messages returns has a user field, whose
\* value may be the empty string, and a channel that begins with "D".
C9_SenderFieldPresent ==
    (op = "get_messages" /\ outcome = "returned") =>
        \A i \in DOMAIN result :
            /\ "user" \in DOMAIN result[i]
            /\ Len(result[i].channel) >= 1 /\ result[i].channel[1] = "D"

\* get_messages has returned an event whose user field is the empty string
C9_Witness ==
    /\ op = "get_messages" /\ outcome = "returned"
    /\ \E i \in DOMAIN result : result[i].user = ""

\* C10: message_user enters _api_call for im.open with the id of the user,
\* then, once the channel is resolved, for chat.postMessage with the channel
\* the resolution returned, and for nothing else; it has made both calls when
\* it returns, whether the post reported ok or not.
C10_OneOpenThenOnePost ==
    op = "message_user" =>
        /\ Len(calls) \in {1, 2}
        /\ calls[1] = [method |-> "im.open", kwargs |-> [user |-> user.id]]
        /\ Len(calls) = 2 =>
               /\ calls[2].method = "chat.postMessage"
               /\ calls[2].kwargs.channel = DirectChannel(user.id)
        /\ (outcome = "returned" \/ channel # NoValue) => Len(calls) = 2

\* message_user has returned after a post that reported ok=false
C10_Witness ==
    /\ op = "message_user" /\ outcome = "returned"
    /\ api.method = "chat.postMessage"
    /\ Has(api.response, "ok") /\ ~api.response.ok
    /\ Len(calls) = 2

\* C11: message_user ends in no error but ChatException, and in
\* ChatException only when the call for im.open raised it: the post raises
\* nothing, and a softly rejected resolution raises no other error.
C11_FailsOnlyWhenResolutionHardFails ==
    (op = "message_user" /\ Ended) =>
        /\ outcome \in {"returned", "ChatException"}
        /\ outcome = "ChatException" => api.method = "im.open"

\* C12: when _api_call has returned the response of api.test to _validate,
\* _validate raises ChatException if its ok is false and returns if its ok
\* is true.
C12_ValidateFollowsOk ==
    (op = "__init__" /\ Ended /\ api.status = "returned"
        /\ "ok" \in DOMAIN api.response) =>
        /\ api.response.ok = FALSE => outcome = "ChatException"
        /\ api.response.ok = TRUE => outcome = "returned"

\* _validate has raised ChatException on a response with ok=false
C12_Witness ==
    /\ op = "__init__" /\ outcome = "ChatException"
    /\ api.status = "returned"
    /\ "ok" \in DOMAIN api.response /\ api.response.ok = FALSE

\* The next cursor a response of users.list carries: empty when it has none
NextCursorOf(response) ==
    IF "response_metadata" \in DOMAIN response
        /\ "next_cursor" \in DOMAIN response.response_metadata
    THEN response.response_metadata.next_cursor
    ELSE EmptyCursor

NoCursor(c) == c = None \/ c = EmptyCursor

\* C15: within one get_users the first call of users.list carries no cursor,
\* and every later call carries the next cursor of the response before it.
C15_CursorFollowsResponse ==
    [][ /\ (op' = "get_users" /\ op # "get_users")
            => NoCursor(api'.kwargs.cursor)
        /\ (op = "get_users" /\ api.status = "returned"
                /\ api'.status = "running")
            => api'.kwargs.cursor = NextCursorOf(api.response) ]_vars

\* The error code of a response is "ratelimited" in some case of letters
HasRateLimitCode(response) ==
    /\ "error" \in DOMAIN response
    /\ response.error \in {ratelimited, RateLimited}

\* C16: a call that has raised ChatException has a rate-limited response as
\* its latest: a response that is not rate-limited is returned, never
\* discarded, however many rate-limited responses came before it.
C16_RaisesOnlyOnRateLimited ==
    (InCall /\ api.status = "raised") => HasRateLimitCode(api.response)

\* C17: with rate_limit_retry false a call issues one request, never sleeps
\* and never raises: its first response, rate-limited or not, is returned.
C17_NoRetryWhenDisabled ==
    (InCall /\ ~api.rate_limit_retry) =>
        /\ api.nreq <= 1
        /\ api.slept = 0
        /\ api.status # "raised"
        /\ api.nreq = 1 => api.status = "returned"

\* A call with rate_limit_retry false has returned a rate-limited response
C17_Witness ==
    /\ InCall /\ ~api.rate_limit_retry
    /\ api.status = "returned"
    /\ HasRateLimitCode(api.response)
    /\ op = "_api_call" /\ outcome = "returned" /\ result = api.response

\* C18: with rate_limit_retry true no response that a call returns is
\* rate-limited.
C18_ReturnedIsNotRateLimited ==
    (InCall /\ api.rate_limit_retry /\ api.status = "returned")
        => ~HasRateLimitCode(api.response)

\* A call with rate_limit_retry true has returned a response after it was
\* rate-limited
C18_Witness ==
    /\ InCall /\ api.rate_limit_retry
    /\ api.status = "returned"
    /\ api.cur_try >= 1

\* C13: the counter of a call counts the rate-limited responses of that call
\* alone: a call starts with cur_try = 0 whatever the calls before it did,
\* and cur_try is the number of its own responses before the latest one.
C13_CounterIsLocal ==
    InCall =>
        api.cur_try = (IF api.status = "running" THEN api.nreq
                       ELSE api.nreq - 1)

\* A call has returned its first response, with cur_try = 0, on an adapter
\* where an earlier call slept or raised
C13_Witness ==
    /\ retried
    /\ InCall /\ api.status = "returned"
    /\ api.nreq = 1 /\ api.cur_try = 0

\* C14: a get_users that lists the backend state an earlier get_users has
\* listed returns the same records in the same order, whatever the transport
\* answered in between.
C14_SameListingSameResult ==
    (op = "get_users" /\ outcome = "returned" /\ listed # NoListing
        /\ listed.pages = pages)
        => result = listed.result

\* The same backend state has been listed again, this time through a
\* rate-limited response, and the listing is not empty
C14_Witness ==
    /\ op = "get_users" /\ outcome = "returned"
    /\ listed # NoListing /\ listed.pages = pages
    /\ result # <<>>
    /\ api.cur_try >= 1

\* C19: __init__ enters _api_call for api.test and for nothing else; it does
\* not construct the adapter when the response is not ok; so a method runs
\* only on an adapter whose _validate has read ok=true.
C19_ValidatedBeforeUse ==
    /\ op = "__init__" =>
           calls = <<[method |-> "api.test", kwargs |-> EmptyDict]>>
    /\ (op = "__init__" /\ Ended /\ api.status = "returned"
            /\ "ok" \in DOMAIN api.response /\ ~api.response.ok)
           => (outcome = "ChatException" /\ ~constructed)
    /\ constructed => validated
    /\ op # "__init__" => (constructed /\ validated)

\* message_user has run on a validated adapter
C19_Witness ==
    /\ op = "message_user" /\ outcome = "returned"
    /\ constructed /\ validated

====
